---- MODULE Spec2Model ----
(***************************************************************************)
(* A model of the OCI content store of rosskirkpat/ocil:                   *)
(*   - store.OCI      (src/pkg/artifact/file/options.go, lines 28-372)     *)
(*   - store.Layout   (src/unnamed/part_000)                               *)
(*                                                                         *)
(* Go strings are sequences of characters (each character a TLA+ string),  *)
(* so "" is <<>>, and a Go map is a function whose DOMAIN is its key set.   *)
(* The file system under the store's root is the three variables blobs,    *)
(* indexFile and ociLayout (plus blobsDir for the blobs/<alg> directory).  *)
(* Every store instance has one client thread (th), which may be inside    *)
(* Add or Push; the layer workers of an Add are separate threads (workers).*)
(***************************************************************************)
EXTENDS Integers, Sequences, FiniteSets, TLC

(***************************************************************************)
(* Bounds of the model.                                                    *)
(***************************************************************************)
\* layers per artifact
NumLayers == 2
\* injected I/O failures per behaviour
MaxFaults == 1
\* calls per behaviour that change the store (Add, Push, Pusher, Flush, SaveIndex)
MaxCalls == 2

(***************************************************************************)
(* Strings, digests, descriptors.                                          *)
(***************************************************************************)
AnnotationRefName == "org.opencontainers.image.ref.name"
MediaTypeImageManifest == "application/vnd.oci.image.manifest.v1+json"
MediaTypeImageIndex == "application/vnd.oci.image.index.v1+json"
DockerManifestSchema2 == "application/vnd.docker.distribution.manifest.v2+json"
MediaTypeImageLayer == "application/vnd.oci.image.layer.v1.tar+gzip"
OCIImageIndexFile == "index.json"

\* error values; the nil error is NoErr
NoErr == [Op |-> "nil"]
PathError(op, path) == [Op |-> op, Path |-> path]
DecodeError == [Op |-> "json.Decode"]

\* Index of the first occurrence of character c in s, 0 when there is none.
IndexOf(s, c) ==
  IF \E i \in 1..Len(s) : s[i] = c
  THEN CHOOSE i \in 1..Len(s) : s[i] = c /\ \A j \in 1..(i-1) : s[j] # c
  ELSE 0

\* strings.SplitN(s, sep, 2): at most two parts, cut at the first separator.
SplitN2(s, sep) ==
  LET i == IndexOf(s, sep)
  IN IF i = 0 THEN <<s>> ELSE <<SubSeq(s, 1, i-1), SubSeq(s, i+1, Len(s))>>

\* digest.FromBytes: "sha256:" followed by the hex of the hash.  The hash is
\* modelled as collision free: the hex of a byte sequence is that sequence.
FromBytes(data) == <<"sha256", ":">> \o data
\* digest.Digest.Algorithm / Hex: the parts before and after the first ':'
Algorithm(dgst) == SplitN2(dgst, ":")[1]
Hex(dgst) == LET p == SplitN2(dgst, ":") IN IF Len(p) > 1 THEN p[2] ELSE <<>>

\* A nil Go map is NilMap; a non-nil map m is <<m>>.
NilMap == <<>>
MakeMap(m) == <<m>>
\* m[key] of a Go map: the zero value "" on a nil map or a missing key
MapGet(am, key) ==
  IF am = NilMap THEN <<>>
  ELSE IF key \in DOMAIN am[1] THEN am[1][key] ELSE <<>>

\* ocispec.Descriptor (URLs and Platform are always nil here)
Descriptor(mt, dgst, size, ann) ==
  [MediaType |-> mt, Digest |-> dgst, Size |-> size, Annotations |-> ann]
\* ocispec.Descriptor{}
EmptyDescriptor == Descriptor("", <<>>, 0, NilMap)

(***************************************************************************)
(* The logical artifacts handed to Add (content2.OCI): two artifacts with  *)
(* the same config; "x" has NumLayers layers of distinct digests, "y" has  *)
(* NumLayers copies of the first layer of "x".                             *)
(***************************************************************************)
Artifacts == {"x", "y"}
LayerIds == <<"1", "2", "3", "4", "5">>
\* layer.Compressed(): the bytes of the i-th layer of artifact a
LayerData(a, i) == IF a = "x" THEN <<"L", LayerIds[i]>> ELSE <<"L", LayerIds[1]>>
\* layer.Digest(): v1.Hash{Algorithm, Hex}
LayerDigest(a, i) == [Algorithm |-> <<"sha256">>, Hex |-> LayerData(a, i)]
\* oci.RawConfig()
RawConfig(a) == <<"C", "0">>
\* oci.Manifest(): the manifest names the config and the layers by digest
Manifest(a) ==
  [MediaType |-> IF a = "x" THEN MediaTypeImageManifest ELSE DockerManifestSchema2,
   Config |-> FromBytes(RawConfig(a)),
   Layers |-> [i \in 1..NumLayers |-> FromBytes(LayerData(a, i))]]
\* json.Marshal(m): the bytes of the manifest document
RECURSIVE Flatten(_)
Flatten(ss) == IF ss = <<>> THEN <<>> ELSE Head(ss) \o <<",">> \o Flatten(Tail(ss))
MarshalManifest(m) ==
  <<"{", IF m.MediaType = MediaTypeImageManifest THEN "oci" ELSE "docker", ",">>
    \o m.Config \o <<",">> \o Flatten(m.Layers) \o <<"}">>

(***************************************************************************)
(* Input sets.                                                             *)
(***************************************************************************)
Stores == {1, 2}
\* reference names: "", "a", "b"
Names == {<<>>, <<"a">>, <<"b">>}
\* the root digests a push session may expect
RootDigests == {FromBytes(MarshalManifest(Manifest("x")))}
\* references handed to Pusher: "a", "a@<digest>" and "@<digest>"
PusherRefs ==
  {<<"a">>} \cup {n \o <<"@">> \o dg : n \in {<<>>, <<"a">>}, dg \in RootDigests}
\* descriptors handed to Fetch
FetchDescs ==
  {Descriptor(MediaTypeImageManifest, dg, Len(Hex(dg)), NilMap) :
     dg \in RootDigests \cup {FromBytes(LayerData("x", 1))}}
\* descriptors handed to Push
PushDescs ==
  {Descriptor(mt, dg, Len(Hex(dg)), NilMap) :
     mt \in {MediaTypeImageManifest, MediaTypeImageLayer},
     dg \in RootDigests \cup {FromBytes(LayerData("x", 1))}}

(***************************************************************************)
(* State.                                                                  *)
(***************************************************************************)
VARIABLES
  stores,     \* the store instances opened on the root (NewOCI)
  blobs,      \* files under blobs/: path -> bytes; DOMAIN blobs = files present
  blobsDir,   \* the directory blobs/<algorithm> exists
  indexFile,  \* index.json: <<>> when absent, else <<document>>
  ociLayout,  \* the oci-layout marker file exists
  nameMap,    \* OCI.nameMap of each store: name -> Descriptor
  index,      \* OCI.index of each store is non-nil
  pusher,     \* the push session of each store: <<>> or <<ociPusher>>
  th,         \* the client thread of each store: the call it is in
  workers,    \* the errgroup workers of the Add a store is in
  ret,        \* what the last call on each store returned
  faults,     \* I/O failures injected so far
  calls       \* calls made so far that change the store

vars == <<stores, blobs, blobsDir, indexFile, ociLayout, nameMap, index,
          pusher, th, workers, ret, faults, calls>>
disk == <<blobs, blobsDir, indexFile, ociLayout>>

(***************************************************************************)
(* Paths and the index document.                                           *)
(***************************************************************************)
\* OCI.path(elem...): the path below the root, the root itself left implicit
path(elem) == elem
\* OCI.ensureBlob without its MkdirAll: the path blobs/<alg>/<hex>
BlobPath(alg, hex) == path(<<"blobs", "/">> \o alg \o <<"/">> \o hex)
IndexPath == path(<<OCIImageIndexFile>>)

SchemaVersion == 2

\* json.Marshal of a Descriptor: annotations are omitted when empty
EncodeDescriptor(d) ==
  LET base == [mediaType |-> d.MediaType, digest |-> d.Digest, size |-> d.Size]
  IN IF d.Annotations # NilMap /\ DOMAIN d.Annotations[1] # {}
     THEN base @@ [annotations |-> d.Annotations[1]]
     ELSE base
\* json decoding of a Descriptor
DecodeDescriptor(j) ==
  Descriptor(j.mediaType, j.digest, j.size,
             IF "annotations" \in DOMAIN j THEN MakeMap(j.annotations) ELSE NilMap)
\* json.Marshal(o.index) with o.index.Manifests = descs
MarshalIndex(descs) ==
  [valid |-> TRUE, schemaVersion |-> SchemaVersion,
   manifests |-> [i \in 1..Len(descs) |-> EncodeDescriptor(descs[i])]]
\* an index.json cut short by a failed write: it does not decode
TruncatedIndex == [valid |-> FALSE]

\* all enumerations of a finite set: the orders sync.Map.Range may take
Perms(S) ==
  {p \in [1..Cardinality(S) -> S] : \A i, j \in 1..Cardinality(S) : p[i] = p[j] => i = j}

\* The loop of LoadIndex: store every named descriptor, in document order.
RECURSIVE StoreManifests(_, _)
StoreManifests(nm, ms) ==
  IF ms = <<>> THEN nm
  ELSE LET desc == DecodeDescriptor(Head(ms))
           name == MapGet(desc.Annotations, AnnotationRefName)
       IN StoreManifests(IF name # <<>> THEN (name :> desc) @@ nm ELSE nm, Tail(ms))

\* may another I/O failure be injected
CanFail == faults < MaxFaults

\* OCI.LoadIndex on store s whose name map is nm: the outcomes
\* [err, nm, idx, f]: error returned, name map and o.index # nil afterwards,
\* failures injected.
LoadIndexOutcomes(s, nm) ==
  LET opened ==
        IF indexFile = <<>>
        THEN [err |-> NoErr, nm |-> nm, idx |-> TRUE, f |-> 0]
        ELSE IF ~indexFile[1].valid
        THEN [err |-> DecodeError, nm |-> nm, idx |-> index[s], f |-> 0]
        ELSE [err |-> NoErr, nm |-> StoreManifests(nm, indexFile[1].manifests),
              idx |-> TRUE, f |-> 0]
      failed == [err |-> PathError("open", IndexPath), nm |-> nm,
                 idx |-> index[s], f |-> 1]
  IN {opened} \cup (IF CanFail THEN {failed} ELSE {})

\* Mutant of Annotate: a descriptor without annotations is appended as it is,
\* no map is made for it.
AnnotateNoMake(d, n) ==
  [d EXCEPT !.Annotations =
     IF d.Annotations = NilMap THEN NilMap
     ELSE MakeMap((AnnotationRefName :> n) @@ d.Annotations[1])]

\* The Range callback of SaveIndex on one entry: the descriptor appended to
\* descs carries the reference name.
Annotate(d, n) ==
  [d EXCEPT !.Annotations =
     IF d.Annotations = NilMap THEN MakeMap(AnnotationRefName :> n)
     ELSE MakeMap((AnnotationRefName :> n) @@ d.Annotations[1])]
\* ... and a descriptor whose Annotations map is not nil shares that map with
\* the entry of the name map, which therefore sees the assignment too.
Aliased(d, n) == IF d.Annotations = NilMap THEN d ELSE Annotate(d, n)

\* Mutant of SaveIndexOutcomes: the names already in index.json are kept,
\* those of the name map are merged into them.
SaveIndexOutcomesMerged(nm) ==
  LET nm2 == [n \in DOMAIN nm |-> Aliased(nm[n], n)]
      old == IF indexFile = <<>> \/ ~indexFile[1].valid THEN <<>>
             ELSE StoreManifests(<<>>, indexFile[1].manifests)
      all == nm @@ old
      docs == {MarshalIndex([i \in 1..Len(p) |-> Annotate(all[p[i]], p[i])]) :
                 p \in Perms(DOMAIN all)}
  IN {[err |-> NoErr, nm |-> nm2, file |-> <<doc>>, f |-> 0] : doc \in docs}

\* OCI.SaveIndex on a store whose name map is nm: the outcomes
\* [err, nm, file, f]
SaveIndexOutcomes(nm) ==
  LET nm2 == [n \in DOMAIN nm |-> Aliased(nm[n], n)]
      docs == {MarshalIndex([i \in 1..Len(p) |-> Annotate(nm[p[i]], p[i])]) :
                 p \in Perms(DOMAIN nm)}
  IN {[err |-> NoErr, nm |-> nm2, file |-> <<doc>>, f |-> 0] : doc \in docs}
     \cup (IF CanFail
           THEN {[err |-> PathError("write", IndexPath), nm |-> nm2, file |-> file, f |-> 1] :
                   file \in {indexFile, <<TruncatedIndex>>}}
           ELSE {})

(***************************************************************************)
(* Initial state: NewOCI(root) on a laid-out root without blobs or index.   *)
(***************************************************************************)
Idle == [pc |-> "idle"]
NoRet == [op |-> "none", err |-> NoErr]
NoWorkers == [i \in 1..NumLayers |-> "none"]

InitOn(ss) ==
  /\ stores = ss
  /\ blobs = <<>>
  /\ blobsDir = FALSE
  /\ indexFile = <<>>
  /\ ociLayout = TRUE
  /\ nameMap = [s \in Stores |-> <<>>]
  /\ index = [s \in Stores |-> FALSE]
  /\ pusher = [s \in Stores |-> <<>>]
  /\ th = [s \in Stores |-> Idle]
  /\ workers = [s \in Stores |-> NoWorkers]
  /\ ret = [s \in Stores |-> NoRet]
  /\ faults = 0
  /\ calls = 0

\* one store instance on the root
Init == InitOn({1})

IsIdle(s) == s \in stores /\ th[s].pc = "idle"
\* a call that changes the store is made: it counts against MaxCalls
Call == calls < MaxCalls /\ calls' = calls + 1

(***************************************************************************)
(* Calls that run in one step.                                             *)
(***************************************************************************)
\* OCI.LoadIndex called by the client (NewLayout does so)
LoadIndex(s) ==
  /\ IsIdle(s)
  /\ \E o \in LoadIndexOutcomes(s, nameMap[s]) :
       /\ nameMap' = [nameMap EXCEPT ![s] = o.nm]
       /\ index' = [index EXCEPT ![s] = o.idx]
       /\ faults' = faults + o.f
       /\ ret' = [ret EXCEPT ![s] = [op |-> "LoadIndex", err |-> o.err]]
  /\ UNCHANGED <<calls, stores, disk, pusher, th, workers>>

\* OCI.SaveIndex called by the client; o.index must have been loaded
SaveIndex(s) ==
  /\ IsIdle(s)
  /\ Call
  /\ index[s]
  /\ \E o \in SaveIndexOutcomes(nameMap[s]) :
       /\ nameMap' = [nameMap EXCEPT ![s] = o.nm]
       /\ indexFile' = o.file
       /\ faults' = faults + o.f
       /\ ret' = [ret EXCEPT ![s] = [op |-> "SaveIndex", err |-> o.err]]
  /\ UNCHANGED <<stores, blobs, blobsDir, ociLayout, index, pusher, th, workers>>

\* What OCI.Resolve returns once LoadIndex has succeeded with name map nm
ResolveResult(nm, ref) ==
  IF ref \notin DOMAIN nm
  THEN [op |-> "Resolve", ref |-> ref, name |-> <<>>, desc |-> EmptyDescriptor,
        err |-> NoErr]
  ELSE [op |-> "Resolve", ref |-> ref, name |-> ref, desc |-> nm[ref], err |-> NoErr]
\* What OCI.Resolve returns when its LoadIndex had outcome o
ResolveReturn(ref, o) ==
  IF o.err # NoErr
  THEN [op |-> "Resolve", ref |-> ref, name |-> <<>>, desc |-> EmptyDescriptor,
        err |-> o.err]
  ELSE ResolveResult(o.nm, ref)

Resolve(s, ref) ==
  /\ IsIdle(s)
  /\ \E o \in LoadIndexOutcomes(s, nameMap[s]) :
       /\ nameMap' = [nameMap EXCEPT ![s] = o.nm]
       /\ index' = [index EXCEPT ![s] = o.idx]
       /\ faults' = faults + o.f
       /\ ret' = [ret EXCEPT ![s] = ResolveReturn(ref, o)]
  /\ UNCHANGED <<calls, stores, disk, pusher, th, workers>>

\* What OCI.Fetcher returns once LoadIndex has succeeded with name map nm:
\* fetcher is "nil" or the store
FetcherResult(s, nm, ref) ==
  IF ref \notin DOMAIN nm
  THEN [op |-> "Fetcher", ref |-> ref, fetcher |-> <<>>, err |-> NoErr]
  ELSE [op |-> "Fetcher", ref |-> ref, fetcher |-> <<s>>, err |-> NoErr]

Fetcher(s, ref) ==
  /\ IsIdle(s)
  /\ \E o \in LoadIndexOutcomes(s, nameMap[s]) :
       /\ nameMap' = [nameMap EXCEPT ![s] = o.nm]
       /\ index' = [index EXCEPT ![s] = o.idx]
       /\ faults' = faults + o.f
       /\ ret' = [ret EXCEPT ![s] =
                    IF o.err # NoErr
                    THEN [op |-> "Fetcher", ref |-> ref, fetcher |-> <<>>, err |-> o.err]
                    ELSE FetcherResult(s, o.nm, ref)]
  /\ UNCHANGED <<calls, stores, disk, pusher, th, workers>>

\* OCI.Fetch / blobReaderAt: ensureBlob makes the directory, os.Open reads;
\* FetchReturn is what comes back once ensureBlob succeeded
FetchReturn(desc) ==
  LET p == BlobPath(Algorithm(desc.Digest), Hex(desc.Digest))
  IN IF p \in DOMAIN blobs
     THEN [op |-> "Fetch", desc |-> desc, body |-> blobs[p], err |-> NoErr]
     ELSE [op |-> "Fetch", desc |-> desc, body |-> <<>>, err |-> PathError("open", p)]

Fetch(s, desc) ==
  LET p == BlobPath(Algorithm(desc.Digest), Hex(desc.Digest))
  IN /\ IsIdle(s)
     /\ \/ /\ blobsDir' = TRUE
           /\ faults' = faults
           /\ ret' = [ret EXCEPT ![s] = FetchReturn(desc)]
        \/ /\ CanFail /\ ~blobsDir
           /\ blobsDir' = blobsDir
           /\ faults' = faults + 1
           /\ ret' = [ret EXCEPT ![s] = [op |-> "Fetch", desc |-> desc, body |-> <<>>,
                                         err |-> PathError("mkdir", p)]]
     /\ UNCHANGED <<calls, stores, blobs, indexFile, ociLayout, nameMap, index, pusher, th, workers>>

\* OCI.Pusher
Pusher(s, ref) ==
  /\ IsIdle(s)
  /\ Call
  /\ \E o \in LoadIndexOutcomes(s, nameMap[s]) :
       LET parts == SplitN2(ref, "@")
           baseRef == parts[1]
           hash == IF Len(parts) > 1 THEN parts[2] ELSE <<>>
       IN /\ nameMap' = [nameMap EXCEPT ![s] = o.nm]
          /\ index' = [index EXCEPT ![s] = o.idx]
          /\ faults' = faults + o.f
          /\ pusher' = [pusher EXCEPT ![s] =
                          IF o.err # NoErr THEN @
                          ELSE <<[oci |-> s, ref |-> baseRef, digest |-> hash]>>]
          /\ ret' = [ret EXCEPT ![s] = [op |-> "Pusher", ref |-> ref, err |-> o.err]]
  /\ UNCHANGED <<stores, disk, th, workers>>

\* What OCI.Walk does on name map nm when Range takes the order `order` and
\* the visitor fails on its k-th call (k = 0: it never fails): the pairs
\* visited and the error returned.
WalkResult(nm, order, k) ==
  LET n == IF k = 0 THEN Len(order) ELSE k
  IN [op |-> "Walk",
      visited |-> [i \in 1..n |-> <<order[i], nm[order[i]]>>],
      fnErr |-> IF k = 0 THEN NoErr ELSE PathError("visit", order[k]),
      err |-> NoErr]

Walk(s) ==
  /\ IsIdle(s)
  /\ \E o \in LoadIndexOutcomes(s, nameMap[s]) :
       /\ nameMap' = [nameMap EXCEPT ![s] = o.nm]
       /\ index' = [index EXCEPT ![s] = o.idx]
       /\ faults' = faults + o.f
       /\ IF o.err # NoErr
          THEN ret' = [ret EXCEPT ![s] = [op |-> "Walk", visited |-> <<>>,
                                          fnErr |-> NoErr, err |-> o.err]]
          ELSE \E order \in Perms(DOMAIN o.nm) : \E k \in 0..Len(order) :
                 ret' = [ret EXCEPT ![s] = WalkResult(o.nm, order, k)]
  /\ UNCHANGED <<calls, stores, disk, pusher, th, workers>>

\* Layout.Flush: three RemoveAll in a row, each of which may fail
Flush(s) ==
  /\ IsIdle(s)
  /\ Call
  /\ \/ /\ blobs' = <<>> /\ blobsDir' = FALSE /\ indexFile' = <<>> /\ ociLayout' = FALSE
        /\ faults' = faults
        /\ ret' = [ret EXCEPT ![s] = [op |-> "Flush", err |-> NoErr]]
     \/ /\ CanFail
        /\ faults' = faults + 1
        /\ \/ /\ UNCHANGED <<blobs, blobsDir, indexFile, ociLayout>>
              /\ ret' = [ret EXCEPT ![s] = [op |-> "Flush", err |-> PathError("remove", <<"blobs">>)]]
           \/ /\ blobs' = <<>> /\ blobsDir' = FALSE
              /\ UNCHANGED <<indexFile, ociLayout>>
              /\ ret' = [ret EXCEPT ![s] = [op |-> "Flush", err |-> PathError("remove", IndexPath)]]
           \/ /\ blobs' = <<>> /\ blobsDir' = FALSE /\ indexFile' = <<>>
              /\ UNCHANGED ociLayout
              /\ ret' = [ret EXCEPT ![s] = [op |-> "Flush", err |-> PathError("remove", <<"oci-layout">>)]]
  /\ UNCHANGED <<stores, nameMap, index, pusher, th, workers>>

(***************************************************************************)
(* Blob writes: writeStream runs in three steps, os.Stat (after ensureBlob  *)
(* made the directory), os.Create and io.Copy, so that the writers of      *)
(* different threads interleave as they do on the file system.             *)
(***************************************************************************)
\* Mutant of StatOutcomes: writeStream without its os.Stat check, every
\* write goes on to os.Create.
StatOutcomesNoCheck(p) ==
  {[next |-> "create", err |-> NoErr, dir |-> TRUE, f |-> 0]}

\* ensureBlob + the os.Stat of writeStream on path p:
\* [next, err, dir, f] with next "skip" (file present), "create" or "fail".
\* MkdirAll can only fail when it has a directory to make.
StatOutcomes(p) ==
  {[next |-> IF p \in DOMAIN blobs THEN "skip" ELSE "create", err |-> NoErr,
    dir |-> TRUE, f |-> 0]}
  \cup (IF CanFail /\ ~blobsDir
        THEN {[next |-> "fail", err |-> PathError("mkdir", p), dir |-> blobsDir, f |-> 1]}
        ELSE {})

\* os.Create(p): creates or truncates the file; [next, err, blobs, f]
CreateOutcomes(p) ==
  IF ~blobsDir
  THEN {[next |-> "fail", err |-> PathError("open", p), blobs |-> blobs, f |-> 0]}
  ELSE {[next |-> "copy", err |-> NoErr, blobs |-> (p :> <<>>) @@ blobs, f |-> 0]}
       \cup (IF CanFail
             THEN {[next |-> "fail", err |-> PathError("open", p), blobs |-> blobs, f |-> 1]}
             ELSE {})

\* the file system after the first k bytes of data were written at offset 0
\* of the file opened at p (nothing is seen at p once the file was removed)
Written(p, data, k) ==
  IF p \notin DOMAIN blobs THEN blobs
  ELSE IF Len(blobs[p]) >= k THEN blobs
  ELSE [blobs EXCEPT ![p] = SubSeq(data, 1, k)]

\* the lengths at which a failing copy may stop
PrefixLens(data) == {0, Len(data) - 1}

\* io.Copy(w, rc) of data into the file opened at p; [next, err, blobs, f]
CopyOutcomes(p, data) ==
  {[next |-> "done", err |-> NoErr, blobs |-> Written(p, data, Len(data)), f |-> 0]}
  \cup (IF CanFail
        THEN {[next |-> "fail", err |-> PathError("write", p),
               blobs |-> Written(p, data, k), f |-> 1] : k \in PrefixLens(data)}
        ELSE {})

(***************************************************************************)
(* OCI.Add.                                                                *)
(***************************************************************************)
\* the root descriptor Add builds for artifact a under reference ref
RootDescriptor(a, ref) ==
  LET mdata == MarshalManifest(Manifest(a))
  IN Descriptor(Manifest(a).MediaType, FromBytes(mdata), Len(mdata),
                MakeMap(AnnotationRefName :> ref))

\* what Add returns: it never returns the descriptor it built
AddReturn(a, ref, err) ==
  [op |-> "Add", oci |-> a, reference |-> ref, desc |-> EmptyDescriptor, err |-> err]

\* the call returns to the client
Return(s, r) ==
  /\ th' = [th EXCEPT ![s] = Idle]
  /\ workers' = [workers EXCEPT ![s] = NoWorkers]
  /\ ret' = [ret EXCEPT ![s] = r]

\* Mutant of AddBegin: the root descriptor is stored in the name map before
\* the layers are written.
AddBeginStoresFirst(s, a, ref) ==
  /\ IsIdle(s)
  /\ Call
  /\ th' = [th EXCEPT ![s] = [pc |-> "wait", sub |-> "none", oci |-> a,
                              reference |-> ref, gerr |-> NoErr, failed |-> {},
                              nm0 |-> nameMap[s], file0 |-> indexFile]]
  /\ workers' = [workers EXCEPT ![s] = [i \in 1..NumLayers |-> "stat"]]
  /\ ret' = [ret EXCEPT ![s] = NoRet]
  /\ nameMap' = [nameMap EXCEPT ![s] = (ref :> RootDescriptor(a, ref)) @@ @]
  /\ UNCHANGED <<stores, disk, index, pusher, faults>>

\* Add is called: one errgroup worker per layer is launched.  nm0 and file0
\* remember the name map and index.json as the call found them, failed the
\* workers that have returned an error.
AddBegin(s, a, ref) ==
  /\ IsIdle(s)
  /\ Call
  /\ th' = [th EXCEPT ![s] = [pc |-> "wait", sub |-> "none", oci |-> a,
                              reference |-> ref, gerr |-> NoErr, failed |-> {},
                              nm0 |-> nameMap[s], file0 |-> indexFile]]
  /\ workers' = [workers EXCEPT ![s] = [i \in 1..NumLayers |-> "stat"]]
  /\ ret' = [ret EXCEPT ![s] = NoRet]
  /\ UNCHANGED <<stores, disk, nameMap, index, pusher, faults>>

\* Mutant of FirstErr: the error of the worker that failed last is kept.
LastErr(gerr, err) == IF err = NoErr THEN gerr ELSE err

\* errgroup keeps the first error its workers return
FirstErr(gerr, err) == IF gerr = NoErr THEN err ELSE gerr

\* worker i ends with error err (NoErr on success)
WorkerEnds(s, i, err) ==
  /\ workers' = [workers EXCEPT ![s][i] = "done"]
  /\ th' = [th EXCEPT ![s].gerr = FirstErr(@, err),
                      ![s].failed = IF err # NoErr THEN @ \cup {i} ELSE @]

LayerPath(s, i) ==
  LET h == LayerDigest(th[s].oci, i) IN BlobPath(h.Algorithm, h.Hex)

\* writeLayer up to the os.Stat of writeStream
LayerStat(s, i) ==
  /\ s \in stores /\ th[s].pc = "wait" /\ workers[s][i] = "stat"
  /\ \E o \in StatOutcomes(LayerPath(s, i)) :
       /\ blobsDir' = o.dir
       /\ faults' = faults + o.f
       /\ IF o.next = "create"
          THEN workers' = [workers EXCEPT ![s][i] = "create"] /\ th' = th
          ELSE WorkerEnds(s, i, o.err)
  /\ UNCHANGED <<calls, stores, blobs, indexFile, ociLayout, nameMap, index, pusher, ret>>

\* the os.Create of writeStream in a layer worker
LayerCreate(s, i) ==
  /\ s \in stores /\ th[s].pc = "wait" /\ workers[s][i] = "create"
  /\ \E o \in CreateOutcomes(LayerPath(s, i)) :
       /\ blobs' = o.blobs
       /\ faults' = faults + o.f
       /\ IF o.next = "copy"
          THEN workers' = [workers EXCEPT ![s][i] = "copy"] /\ th' = th
          ELSE WorkerEnds(s, i, o.err)
  /\ UNCHANGED <<calls, stores, blobsDir, indexFile, ociLayout, nameMap, index, pusher, ret>>

\* the io.Copy of writeStream in a layer worker
LayerCopy(s, i) ==
  /\ s \in stores /\ th[s].pc = "wait" /\ workers[s][i] = "copy"
  /\ \E o \in CopyOutcomes(LayerPath(s, i), LayerData(th[s].oci, i)) :
       /\ blobs' = o.blobs
       /\ faults' = faults + o.f
       /\ WorkerEnds(s, i, o.err)
  /\ UNCHANGED <<calls, stores, blobsDir, indexFile, ociLayout, nameMap, index, pusher, ret>>

\* Mutant of AddWait: the wait ends as soon as one worker has ended.
AddWaitForOne(s) ==
  /\ s \in stores /\ th[s].pc = "wait"
  /\ \E i \in 1..NumLayers : workers[s][i] = "done"
  /\ IF th[s].gerr # NoErr
     THEN Return(s, AddReturn(th[s].oci, th[s].reference, th[s].gerr))
     ELSE /\ th' = [th EXCEPT ![s].pc = "config", ![s].sub = "stat"]
          /\ workers' = [workers EXCEPT ![s] = NoWorkers]
          /\ ret' = ret
  /\ UNCHANGED <<calls, stores, disk, nameMap, index, pusher, faults>>

\* g.Wait() returns once every worker has ended
AddWait(s) ==
  /\ s \in stores /\ th[s].pc = "wait"
  /\ \A i \in 1..NumLayers : workers[s][i] = "done"
  /\ IF th[s].gerr # NoErr
     THEN Return(s, AddReturn(th[s].oci, th[s].reference, th[s].gerr))
     ELSE /\ th' = [th EXCEPT ![s].pc = "config", ![s].sub = "stat"]
          /\ workers' = [workers EXCEPT ![s] = NoWorkers]
          /\ ret' = ret
  /\ UNCHANGED <<calls, stores, disk, nameMap, index, pusher, faults>>

\* the bytes the client thread of Add is writing: config, then manifest
BytesData(s) ==
  IF th[s].pc = "config" THEN RawConfig(th[s].oci)
  ELSE MarshalManifest(Manifest(th[s].oci))
BytesPath(s) ==
  LET d == FromBytes(BytesData(s)) IN BlobPath(Algorithm(d), Hex(d))
InWriteBytes(s, sub) ==
  s \in stores /\ th[s].pc \in {"config", "manifest"} /\ th[s].sub = sub

\* writeBytes has returned nil: on to the manifest, then to the index
BytesDone(s) ==
  /\ th' = [th EXCEPT ![s].pc = IF @ = "config" THEN "manifest" ELSE "index",
                      ![s].sub = IF th[s].pc = "config" THEN "stat" ELSE "none"]
  /\ UNCHANGED <<workers, ret>>

\* writeBytes up to the os.Stat of writeStream
BytesStat(s) ==
  /\ InWriteBytes(s, "stat")
  /\ \E o \in StatOutcomes(BytesPath(s)) :
       /\ blobsDir' = o.dir
       /\ faults' = faults + o.f
       /\ CASE o.next = "create" ->
                 th' = [th EXCEPT ![s].sub = "create"] /\ UNCHANGED <<workers, ret>>
            [] o.next = "skip" -> BytesDone(s)
            [] OTHER -> Return(s, AddReturn(th[s].oci, th[s].reference, o.err))
  /\ UNCHANGED <<calls, stores, blobs, indexFile, ociLayout, nameMap, index, pusher>>

BytesCreate(s) ==
  /\ InWriteBytes(s, "create")
  /\ \E o \in CreateOutcomes(BytesPath(s)) :
       /\ blobs' = o.blobs
       /\ faults' = faults + o.f
       /\ IF o.next = "copy"
          THEN th' = [th EXCEPT ![s].sub = "copy"] /\ UNCHANGED <<workers, ret>>
          ELSE Return(s, AddReturn(th[s].oci, th[s].reference, o.err))
  /\ UNCHANGED <<calls, stores, blobsDir, indexFile, ociLayout, nameMap, index, pusher>>

BytesCopy(s) ==
  /\ InWriteBytes(s, "copy")
  /\ \E o \in CopyOutcomes(BytesPath(s), BytesData(s)) :
       /\ blobs' = o.blobs
       /\ faults' = faults + o.f
       /\ IF o.next = "done"
          THEN BytesDone(s)
          ELSE Return(s, AddReturn(th[s].oci, th[s].reference, o.err))
  /\ UNCHANGED <<calls, stores, blobsDir, indexFile, ociLayout, nameMap, index, pusher>>

\* "Build index": nameMap.Store(reference, midx), then LoadIndex
AddLoad(s) ==
  /\ s \in stores /\ th[s].pc = "index"
  /\ LET midx == RootDescriptor(th[s].oci, th[s].reference)
         stored == (th[s].reference :> midx) @@ nameMap[s]
     IN \E o \in LoadIndexOutcomes(s, stored) :
          /\ nameMap' = [nameMap EXCEPT ![s] = o.nm]
          /\ index' = [index EXCEPT ![s] = o.idx]
          /\ faults' = faults + o.f
          /\ IF o.err # NoErr
             THEN Return(s, AddReturn(th[s].oci, th[s].reference, o.err))
             ELSE th' = [th EXCEPT ![s].pc = "save"] /\ UNCHANGED <<workers, ret>>
  /\ UNCHANGED <<calls, stores, disk, pusher>>

\* return ocispec.Descriptor{}, o.SaveIndex()
AddSave(s) ==
  /\ s \in stores /\ th[s].pc = "save"
  /\ \E o \in SaveIndexOutcomes(nameMap[s]) :
       /\ nameMap' = [nameMap EXCEPT ![s] = o.nm]
       /\ indexFile' = o.file
       /\ faults' = faults + o.f
       /\ Return(s, AddReturn(th[s].oci, th[s].reference, o.err))
  /\ UNCHANGED <<calls, stores, blobs, blobsDir, ociLayout, index, pusher>>

(***************************************************************************)
(* ociPusher.Push.                                                         *)
(***************************************************************************)
\* the media types of the switch in Push
IsManifestType(mt) ==
  mt \in {MediaTypeImageManifest, MediaTypeImageIndex, DockerManifestSchema2}

\* Mutant of RootRecognised: the expected digest is compared with the hex
\* part of the pushed digest only.
RootRecognisedByHex(p, d) ==
  IsManifestType(d.MediaType) /\ p.digest # <<>> /\ p.digest = Hex(d.Digest)

\* Mutant of RootRecognised: the switch on the media type is left out.
RootRecognisedAnyType(p, d) ==
  p.digest # <<>> /\ p.digest = d.Digest

\* the pushed descriptor is the root the session p expects
RootRecognised(p, d) ==
  IsManifestType(d.MediaType) /\ p.digest # <<>> /\ p.digest = d.Digest

\* what Push returns: writer is "nil", "discard" (ioutil.Discard) or "file"
PushReturn(p, d, writer, err) ==
  [op |-> "Push", ref |-> p.ref, digest |-> p.digest, d |-> d,
   writer |-> writer, err |-> err]

\* Push is called on the session of store s
PushBegin(s, d) ==
  /\ IsIdle(s)
  /\ Call
  /\ pusher[s] # <<>>
  /\ th' = [th EXCEPT ![s] =
              [pc |-> IF RootRecognised(pusher[s][1], d) THEN "pushLoad" ELSE "pushStat",
               p |-> pusher[s][1], d |-> d,
               nm0 |-> nameMap[s], file0 |-> indexFile]]
  /\ ret' = [ret EXCEPT ![s] = NoRet]
  /\ UNCHANGED <<stores, disk, nameMap, index, pusher, workers, faults>>

\* the root is recognised: LoadIndex, then nameMap.Store(p.ref, d)
PushLoad(s) ==
  /\ s \in stores /\ th[s].pc = "pushLoad"
  /\ \E o \in LoadIndexOutcomes(s, nameMap[s]) :
       /\ index' = [index EXCEPT ![s] = o.idx]
       /\ faults' = faults + o.f
       /\ IF o.err # NoErr
          THEN /\ nameMap' = [nameMap EXCEPT ![s] = o.nm]
               /\ Return(s, PushReturn(th[s].p, th[s].d, "nil", o.err))
          ELSE /\ nameMap' = [nameMap EXCEPT ![s] = (th[s].p.ref :> th[s].d) @@ o.nm]
               /\ th' = [th EXCEPT ![s].pc = "pushSave"]
               /\ UNCHANGED <<workers, ret>>
  /\ UNCHANGED <<calls, stores, disk, pusher>>

\* ... then SaveIndex
PushSave(s) ==
  /\ s \in stores /\ th[s].pc = "pushSave"
  /\ \E o \in SaveIndexOutcomes(nameMap[s]) :
       /\ nameMap' = [nameMap EXCEPT ![s] = o.nm]
       /\ indexFile' = o.file
       /\ faults' = faults + o.f
       /\ IF o.err # NoErr
          THEN Return(s, PushReturn(th[s].p, th[s].d, "nil", o.err))
          ELSE th' = [th EXCEPT ![s].pc = "pushStat"] /\ UNCHANGED <<workers, ret>>
  /\ UNCHANGED <<calls, stores, blobs, blobsDir, ociLayout, index, pusher>>

PushPath(s) == BlobPath(Algorithm(th[s].d.Digest), Hex(th[s].d.Digest))

\* ensureBlob and os.Stat: a blob that is present gets a discarding writer
PushStat(s) ==
  /\ s \in stores /\ th[s].pc = "pushStat"
  /\ \E o \in StatOutcomes(PushPath(s)) :
       /\ blobsDir' = o.dir
       /\ faults' = faults + o.f
       /\ CASE o.next = "create" ->
                 th' = [th EXCEPT ![s].pc = "pushCreate"] /\ UNCHANGED <<workers, ret>>
            [] o.next = "skip" -> Return(s, PushReturn(th[s].p, th[s].d, "discard", NoErr))
            [] OTHER -> Return(s, PushReturn(th[s].p, th[s].d, "nil", o.err))
  /\ UNCHANGED <<calls, stores, blobs, indexFile, ociLayout, nameMap, index, pusher>>

\* os.Create: the writer onto the new blob file is returned
PushCreate(s) ==
  /\ s \in stores /\ th[s].pc = "pushCreate"
  /\ \E o \in CreateOutcomes(PushPath(s)) :
       /\ blobs' = o.blobs
       /\ faults' = faults + o.f
       /\ IF o.next = "copy"
          THEN Return(s, PushReturn(th[s].p, th[s].d, "file", NoErr))
          ELSE Return(s, PushReturn(th[s].p, th[s].d, "nil", o.err))
  /\ UNCHANGED <<calls, stores, blobsDir, indexFile, ociLayout, nameMap, index, pusher>>

(***************************************************************************)
(* The specification.                                                      *)
(***************************************************************************)
Next ==
  \E s \in Stores :
    \/ LoadIndex(s)
    \/ SaveIndex(s)
    \/ \E ref \in Names : Resolve(s, ref)
    \/ \E ref \in Names : Fetcher(s, ref)
    \/ \E d \in FetchDescs : Fetch(s, d)
    \/ \E ref \in PusherRefs : Pusher(s, ref)
    \/ Walk(s)
    \/ Flush(s)
    \/ \E a \in Artifacts, ref \in Names : AddBegin(s, a, ref)
    \/ \E i \in 1..NumLayers : LayerStat(s, i)
    \/ \E i \in 1..NumLayers : LayerCreate(s, i)
    \/ \E i \in 1..NumLayers : LayerCopy(s, i)
    \/ AddWait(s)
    \/ BytesStat(s)
    \/ BytesCreate(s)
    \/ BytesCopy(s)
    \/ AddLoad(s)
    \/ AddSave(s)
    \/ \E d \in PushDescs : PushBegin(s, d)
    \/ PushLoad(s)
    \/ PushSave(s)
    \/ PushStat(s)
    \/ PushCreate(s)

Spec == Init /\ [][Next]_vars

(***************************************************************************)
(* Two store instances on one root, a push session open on each: the state *)
(* after NewOCI(root) twice, Pusher("a@D") on the first instance and        *)
(* Pusher("b@D") on the second, D the digest of the manifest of "x".  The   *)
(* two instances then ingest, push, load the index and flush side by side; *)
(* calls are counted from this state on, and no I/O failure is injected    *)
(* (the failures of this specification are those one instance causes the   *)
(* other, as when a Flush removes the directory a worker is writing to).   *)
(***************************************************************************)
\* what each instance is asked to add: the first "x" under "" or "a", the
\* second "y" under "b"
SharedAdds(s) ==
  IF s = 1 THEN {<<"x", <<>> >>, <<"x", <<"a">> >>} ELSE {<<"y", <<"b">> >>}

SessionRef(s) == (IF s = 1 THEN <<"a">> ELSE <<"b">>) \o <<"@">>
                   \o FromBytes(MarshalManifest(Manifest("x")))

InitShared ==
  /\ stores = Stores
  /\ blobs = <<>>
  /\ blobsDir = FALSE
  /\ indexFile = <<>>
  /\ ociLayout = TRUE
  /\ nameMap = [s \in Stores |-> <<>>]
  /\ index = [s \in Stores |-> TRUE]
  /\ pusher = [s \in Stores |->
                 <<[oci |-> s, ref |-> SplitN2(SessionRef(s), "@")[1],
                    digest |-> SplitN2(SessionRef(s), "@")[2]]>>]
  /\ th = [s \in Stores |-> Idle]
  /\ workers = [s \in Stores |-> NoWorkers]
  /\ ret = [s \in Stores |-> [op |-> "Pusher", ref |-> SessionRef(s), err |-> NoErr]]
  /\ faults = MaxFaults
  /\ calls = 0

NextShared ==
  \E s \in Stores :
    \/ LoadIndex(s)
    \/ Flush(s)
    \/ \E in \in SharedAdds(s) : AddBegin(s, in[1], in[2])
    \/ \E i \in 1..NumLayers : LayerStat(s, i)
    \/ \E i \in 1..NumLayers : LayerCreate(s, i)
    \/ \E i \in 1..NumLayers : LayerCopy(s, i)
    \/ AddWait(s)
    \/ BytesStat(s)
    \/ BytesCreate(s)
    \/ BytesCopy(s)
    \/ AddLoad(s)
    \/ AddSave(s)
    \/ \E d \in PushDescs : PushBegin(s, d)
    \/ PushLoad(s)
    \/ PushSave(s)
    \/ PushStat(s)
    \/ PushCreate(s)

SpecShared == InitShared /\ [][NextShared]_vars

(***************************************************************************)
(* Layout.AddOCI (src/unnamed/part_000): the manifest and the config are   *)
(* written with Layout.writeBytes, then one errgroup worker per layer      *)
(* writes its layer through Layout.writerAt, then the root descriptor goes *)
(* to AddIndex.  writeBytes runs in the steps of writerAt (MkdirAll and    *)
(* os.Stat, then os.Create) and of w.Write.                                *)
(***************************************************************************)
\* os.ErrInvalid, what the methods of a nil *os.File return
ErrInvalid == [Op |-> "invalid argument"]

\* what AddOCI returns
AddOCIReturn(a, ref, desc, err) ==
  [op |-> "AddOCI", oci |-> a, reference |-> ref, desc |-> desc, err |-> err]
LayoutFail(s, err) ==
  Return(s, AddOCIReturn(th[s].oci, th[s].reference, EmptyDescriptor, err))

\* AddOCI is called; blobs0 remembers the blob files the call found
AddOCIBegin(s, a, ref) ==
  /\ IsIdle(s)
  /\ Call
  /\ th' = [th EXCEPT ![s] = [pc |-> "lmanifest", sub |-> "stat", oci |-> a,
                              reference |-> ref, gerr |-> NoErr, failed |-> {},
                              blobs0 |-> blobs]]
  /\ ret' = [ret EXCEPT ![s] = NoRet]
  /\ UNCHANGED <<stores, disk, nameMap, index, pusher, workers, faults>>

\* the bytes Layout.writeBytes is writing: the manifest, then the config
LayoutData(s) ==
  IF th[s].pc = "lmanifest" THEN MarshalManifest(Manifest(th[s].oci))
  ELSE RawConfig(th[s].oci)
LayoutPath(s) ==
  LET d == FromBytes(LayoutData(s)) IN BlobPath(Algorithm(d), Hex(d))
InLayoutBytes(s, sub) ==
  s \in stores /\ th[s].pc \in {"lmanifest", "lconfig"} /\ th[s].sub = sub

\* writeBytes has returned nil: on to the config, then the workers are
\* launched
LayoutBytesDone(s) ==
  IF th[s].pc = "lmanifest"
  THEN /\ th' = [th EXCEPT ![s].pc = "lconfig", ![s].sub = "stat"]
       /\ UNCHANGED <<workers, ret>>
  ELSE /\ th' = [th EXCEPT ![s].pc = "lwait", ![s].sub = "none"]
       /\ workers' = [workers EXCEPT ![s] = [i \in 1..NumLayers |-> "stat"]]
       /\ ret' = ret

\* writeBytes, the MkdirAll and os.Stat of writerAt.  When the file is there
\* writerAt returns (nil, nil), and w.Write on the nil file fails.
LayoutBytesStat(s) ==
  /\ InLayoutBytes(s, "stat")
  /\ \E o \in StatOutcomes(LayoutPath(s)) :
       /\ blobsDir' = o.dir
       /\ faults' = faults + o.f
       /\ CASE o.next = "create" ->
                 th' = [th EXCEPT ![s].sub = "create"] /\ UNCHANGED <<workers, ret>>
            [] o.next = "skip" -> LayoutFail(s, ErrInvalid)
            [] OTHER -> LayoutFail(s, o.err)
  /\ UNCHANGED <<calls, stores, blobs, indexFile, ociLayout, nameMap, index, pusher>>

\* writeBytes, the os.Create of writerAt
LayoutBytesCreate(s) ==
  /\ InLayoutBytes(s, "create")
  /\ \E o \in CreateOutcomes(LayoutPath(s)) :
       /\ blobs' = o.blobs
       /\ faults' = faults + o.f
       /\ IF o.next = "copy"
          THEN th' = [th EXCEPT ![s].sub = "copy"] /\ UNCHANGED <<workers, ret>>
          ELSE LayoutFail(s, o.err)
  /\ UNCHANGED <<calls, stores, blobsDir, indexFile, ociLayout, nameMap, index, pusher>>

\* writeBytes, w.Write(data)
LayoutBytesWrite(s) ==
  /\ InLayoutBytes(s, "copy")
  /\ \E o \in CopyOutcomes(LayoutPath(s), LayoutData(s)) :
       /\ blobs' = o.blobs
       /\ faults' = faults + o.f
       /\ IF o.next = "done" THEN LayoutBytesDone(s) ELSE LayoutFail(s, o.err)
  /\ UNCHANGED <<calls, stores, blobsDir, indexFile, ociLayout, nameMap, index, pusher>>

\* the process has died of a panic: nothing runs in it any more
Panicked == [pc |-> "panic"]

\* a layer worker, the MkdirAll and os.Stat of writerAt.  When the file is
\* there writerAt returns (nil, nil); w.Stat() on the nil file returns a nil
\* FileInfo, and s.Size() on it is a nil dereference, which panics.
LayoutLayerStat(s, i) ==
  /\ s \in stores /\ th[s].pc = "lwait" /\ workers[s][i] = "stat"
  /\ \E o \in StatOutcomes(LayerPath(s, i)) :
       /\ blobsDir' = o.dir
       /\ faults' = faults + o.f
       /\ CASE o.next = "create" ->
                 workers' = [workers EXCEPT ![s][i] = "create"] /\ th' = th
            [] o.next = "skip" ->
                 /\ th' = [th EXCEPT ![s] = Panicked]
                 /\ workers' = [workers EXCEPT ![s] = NoWorkers]
            [] OTHER -> WorkerEnds(s, i, o.err)
  /\ UNCHANGED <<calls, stores, blobs, indexFile, ociLayout, nameMap, index, pusher, ret>>

\* a layer worker, the os.Create of writerAt
LayoutLayerCreate(s, i) ==
  /\ s \in stores /\ th[s].pc = "lwait" /\ workers[s][i] = "create"
  /\ \E o \in CreateOutcomes(LayerPath(s, i)) :
       /\ blobs' = o.blobs
       /\ faults' = faults + o.f
       /\ IF o.next = "copy"
          THEN workers' = [workers EXCEPT ![s][i] = "copy"] /\ th' = th
          ELSE WorkerEnds(s, i, o.err)
  /\ UNCHANGED <<calls, stores, blobsDir, indexFile, ociLayout, nameMap, index, pusher, ret>>

\* a layer worker, from w.Stat() on: the layer is skipped when the file has
\* a size other than 0, else it is copied
LayoutLayerCopy(s, i) ==
  /\ s \in stores /\ th[s].pc = "lwait" /\ workers[s][i] = "copy"
  /\ LET p == LayerPath(s, i)
     IN IF p \in DOMAIN blobs /\ Len(blobs[p]) # 0
        THEN /\ WorkerEnds(s, i, NoErr)
             /\ UNCHANGED <<blobs, faults>>
        ELSE \E o \in CopyOutcomes(p, LayerData(th[s].oci, i)) :
               /\ blobs' = o.blobs
               /\ faults' = faults + o.f
               /\ WorkerEnds(s, i, o.err)
  /\ UNCHANGED <<calls, stores, blobsDir, indexFile, ociLayout, nameMap, index, pusher, ret>>

\* g.Wait() in AddOCI
LayoutWait(s) ==
  /\ s \in stores /\ th[s].pc = "lwait"
  /\ \A i \in 1..NumLayers : workers[s][i] = "done"
  /\ IF th[s].gerr # NoErr
     THEN LayoutFail(s, th[s].gerr)
     ELSE /\ th' = [th EXCEPT ![s].pc = "lindex"]
          /\ workers' = [workers EXCEPT ![s] = NoWorkers]
          /\ ret' = ret
  /\ UNCHANGED <<calls, stores, disk, nameMap, index, pusher, faults>>

\* return idx, l.store.AddIndex(idx).  AddIndex registers the root descriptor
\* under the reference name in the name map and persists the index.
AddIndex(s) ==
  /\ s \in stores /\ th[s].pc = "lindex"
  /\ LET idx == RootDescriptor(th[s].oci, th[s].reference)
     IN \E o \in SaveIndexOutcomes((th[s].reference :> idx) @@ nameMap[s]) :
          /\ nameMap' = [nameMap EXCEPT ![s] = o.nm]
          /\ indexFile' = o.file
          /\ faults' = faults + o.f
          /\ Return(s, AddOCIReturn(th[s].oci, th[s].reference, idx, o.err))
  /\ UNCHANGED <<calls, stores, blobs, blobsDir, ociLayout, index, pusher>>

\* NewLayout in a new process, after the old one died: NewOCI and LoadIndex
NewLayout(s) ==
  /\ s \in stores /\ th[s] = Panicked
  /\ \E o \in LoadIndexOutcomes(s, <<>>) :
       /\ o.err = NoErr
       /\ nameMap' = [nameMap EXCEPT ![s] = o.nm]
       /\ index' = [index EXCEPT ![s] = o.idx]
       /\ faults' = faults + o.f
  /\ th' = [th EXCEPT ![s] = Idle]
  /\ pusher' = [pusher EXCEPT ![s] = <<>>]
  /\ ret' = [ret EXCEPT ![s] = NoRet]
  /\ UNCHANGED <<calls, stores, disk, workers>>

\* NewLayout(root) on a laid-out root without blobs or index
InitLayout ==
  /\ stores = {1}
  /\ blobs = <<>>
  /\ blobsDir = FALSE
  /\ indexFile = <<>>
  /\ ociLayout = TRUE
  /\ nameMap = [s \in Stores |-> <<>>]
  /\ index = [s \in Stores |-> s = 1]
  /\ pusher = [s \in Stores |-> <<>>]
  /\ th = [s \in Stores |-> Idle]
  /\ workers = [s \in Stores |-> NoWorkers]
  /\ ret = [s \in Stores |-> NoRet]
  /\ faults = 0
  /\ calls = 0

NextLayout ==
  \E s \in Stores :
    \/ \E a \in Artifacts, ref \in Names : AddOCIBegin(s, a, ref)
    \/ LayoutBytesStat(s)
    \/ LayoutBytesCreate(s)
    \/ LayoutBytesWrite(s)
    \/ \E i \in 1..NumLayers : LayoutLayerStat(s, i)
    \/ \E i \in 1..NumLayers : LayoutLayerCreate(s, i)
    \/ \E i \in 1..NumLayers : LayoutLayerCopy(s, i)
    \/ LayoutWait(s)
    \/ AddIndex(s)
    \/ NewLayout(s)

SpecLayout == InitLayout /\ [][NextLayout]_vars

(***************************************************************************)
(* What a call made now would return when no I/O failure is injected.      *)
(***************************************************************************)
\* the outcome of LoadIndex on store s in the current state
LoadNow(s) == CHOOSE o \in LoadIndexOutcomes(s, nameMap[s]) : o.f = 0
\* what Resolve(ref) on store s returns in the current state
ResolveNow(s, ref) == ResolveReturn(ref, LoadNow(s))
\* what Fetcher(ref) on store s returns in the current state
FetcherNow(s, ref) ==
  IF LoadNow(s).err # NoErr
  THEN [op |-> "Fetcher", ref |-> ref, fetcher |-> <<>>, err |-> LoadNow(s).err]
  ELSE FetcherResult(s, LoadNow(s).nm, ref)
\* the descriptors of the persisted index.json (none when absent or cut short)
Persisted ==
  IF indexFile = <<>> \/ ~indexFile[1].valid THEN {}
  ELSE {DecodeDescriptor(indexFile[1].manifests[i]) : i \in 1..Len(indexFile[1].manifests)}
\* the bytes and the blob path of the marshaled manifest of artifact a
ManifestData(a) == MarshalManifest(Manifest(a))
ManifestPath(a) ==
  BlobPath(Algorithm(FromBytes(ManifestData(a))), Hex(FromBytes(ManifestData(a))))
\* the last call on store s was an Add that returned nil
AddSucceeded(s) == ret[s].op = "Add" /\ ret[s].err = NoErr

(***************************************************************************)
(* C1  Round-trip.  Once Add(artifact, ref) has returned without error (and *)
(* no I/O failure was injected), Resolve(ref) returns (ref, d) with        *)
(* d.Digest the digest of the marshaled manifest of the artifact, and      *)
(* Fetch(d) yields exactly the marshaled manifest bytes.                   *)
(***************************************************************************)
C1_RoundTrip ==
  \A s \in stores :
    (AddSucceeded(s) /\ faults = 0) =>
      LET mdata == ManifestData(ret[s].oci)
          r == ResolveNow(s, ret[s].reference)
      IN /\ r.err = NoErr
         /\ r.name = ret[s].reference
         /\ r.desc.Digest = FromBytes(mdata)
         /\ FetchReturn(r.desc).err = NoErr
         /\ FetchReturn(r.desc).body = mdata

(***************************************************************************)
(* C2  Lookup miss is an error.  A Resolve or Fetcher call whose reference *)
(* is not a key of the name map after the index is loaded returns an error *)
(* and no descriptor (no handle); it never returns a nil error.            *)
(***************************************************************************)
C2_MissIsError ==
  \A s \in stores :
    /\ (ret[s].op = "Resolve" /\ ret[s].ref \notin DOMAIN nameMap[s]) =>
         (ret[s].err # NoErr /\ ret[s].desc = EmptyDescriptor)
    /\ (ret[s].op = "Fetcher" /\ ret[s].ref \notin DOMAIN nameMap[s]) =>
         (ret[s].err # NoErr /\ ret[s].fetcher = <<>>)

(***************************************************************************)
(* C3  Name overwrite, last write wins.  When Add(a2, ref) succeeds on a   *)
(* store whose index.json maps ref to the manifest of another artifact a1, *)
(* then Resolve(ref) returns the descriptor of a2's manifest, index.json   *)
(* maps ref to it, and a1's manifest blob is still on disk.  Stated on the *)
(* last step of Add, the one that saves the index and returns.             *)
(***************************************************************************)
C3_MapsRefTo(a, ref) ==
  \E d \in Persisted :
    MapGet(d.Annotations, AnnotationRefName) = ref /\ d.Digest = FromBytes(ManifestData(a))

C3_LastWriteWins ==
  [][\A s \in stores : \A a1, a2 \in Artifacts : \A ref \in Names :
       (/\ th[s].pc = "save" /\ th[s].oci = a2 /\ th[s].reference = ref
        /\ a1 # a2
        /\ C3_MapsRefTo(a1, ref)
        /\ ret'[s].op = "Add" /\ ret'[s].err = NoErr)
       => (/\ ResolveNow(s, ref)'.desc.Digest = FromBytes(ManifestData(a2))
           /\ C3_MapsRefTo(a2, ref)'
           /\ ~C3_MapsRefTo(a1, ref)'
           /\ ManifestPath(a1) \in DOMAIN blobs')]_vars

(***************************************************************************)
(* C4  Partial failure.  From the call of Add until g.Wait() returns, no   *)
(* step of the call changes the name map or index.json, so Resolve gives   *)
(* for every reference what it gave before the call; and when a layer      *)
(* worker has failed, the step that ends the wait returns that error from  *)
(* Add.                                                                    *)
(***************************************************************************)
\* the step is taken by the call store s is in
StepOf(s) == th'[s] # th[s] \/ workers'[s] # workers[s]

C4_PartialFailure ==
  [][\A s \in stores :
       (StepOf(s) /\ (th[s].pc = "wait" \/ th'[s].pc = "wait")) =>
         /\ nameMap'[s] = nameMap[s]
         /\ indexFile' = indexFile
         /\ \A ref \in Names : ResolveNow(s, ref)' = ResolveNow(s, ref)
         /\ (th[s].pc = "wait" /\ th[s].gerr # NoErr /\ th'[s].pc # "wait") =>
              (ret'[s].op = "Add" /\ ret'[s].err = th[s].gerr /\ th'[s].pc = "idle")]_vars

\* Add has returned the error of a failed layer write for a reference that
\* was registered before
C4_Witness ==
  \E s \in stores :
    /\ ret[s].op = "Add" /\ ret[s].err # NoErr
    /\ \E i \in 1..NumLayers :
         ret[s].err = PathError("write", BlobPath(<<"sha256">>, LayerData(ret[s].oci, i)))
    /\ ret[s].reference \in DOMAIN nameMap[s]
    /\ ResolveNow(s, ret[s].reference).desc.Digest
         # FromBytes(ManifestData(ret[s].oci))

(***************************************************************************)
(* C5  Push-session root recognition.  When Push(d) on a session made by   *)
(* Pusher("base@D") has got past its index update, d having a manifest or  *)
(* index media type and the digest D, then Resolve(base) returns d and     *)
(* index.json holds d annotated with the name base; and no later step of   *)
(* the store changes index.json or what Resolve returns, unless it is part *)
(* of a registration, an index save or a flush.                            *)
(***************************************************************************)
\* d is the root a session with expected digest dg waits for
C5_IsRoot(dg, d) ==
  /\ d.MediaType \in {MediaTypeImageManifest, MediaTypeImageIndex, DockerManifestSchema2}
  /\ dg # <<>>
  /\ dg = d.Digest

\* an error of the index load or save of a call
C5_IndexErr(err) ==
  \/ err.Op = "json.Decode"
  \/ err.Op \in {"open", "write"} /\ err.Path = IndexPath

\* base resolves to d on store s, and index.json holds d under that name
C5_Registered(s, base, d) ==
  /\ Annotate(d, base) \in Persisted
  /\ LET r == ResolveNow(s, base)
     IN /\ r.err = NoErr
        /\ r.name = base
        /\ r.desc.Digest = d.Digest
        /\ r.desc.MediaType = d.MediaType
        /\ r.desc.Size = d.Size

\* the step belongs to a registration, an index save or a flush by store s
C5_Rewrites(s) ==
  \/ th[s].pc \in {"index", "save", "pushLoad", "pushSave"}
  \/ th[s].pc = "idle" /\ calls' # calls /\ ret'[s].op \in {"SaveIndex", "Flush"}

C5_RootRecognition ==
  [][\A s \in stores :
       /\ (/\ ret'[s].op = "Push"
           /\ C5_IsRoot(ret'[s].digest, ret'[s].d)
           /\ ~C5_IndexErr(ret'[s].err))
          => \E base \in Names : \E d \in PushDescs :
               /\ base = ret'[s].ref /\ d = ret'[s].d
               /\ C5_Registered(s, base, d)'
       /\ ~C5_Rewrites(s) =>
            /\ indexFile' = indexFile
            /\ \/ nameMap'[s] = nameMap[s]
               \/ \A base \in Names : ResolveNow(s, base)' = ResolveNow(s, base)]_vars

\* a Resolve after the root push returned the pushed descriptor
C5_Witness ==
  \E s \in stores : \E d \in PushDescs :
    /\ pusher[s] # <<>> /\ C5_IsRoot(pusher[s][1].digest, d)
    /\ ret[s].op = "Resolve" /\ ret[s].err = NoErr
    /\ ret[s].name = pusher[s][1].ref
    /\ ret[s].desc = Annotate(d, pusher[s][1].ref)
    /\ Annotate(d, pusher[s][1].ref) \in Persisted

(***************************************************************************)
(* C6  Non-root pushes do not touch names.  No step of a Push(d) changes   *)
(* the name map or index.json when d has no manifest or index media type,  *)
(* or its digest differs from the digest the session expects, or the       *)
(* session was made from a reference without '@digest'.                    *)
(***************************************************************************)
C6_PushPcs == {"pushLoad", "pushSave", "pushStat", "pushCreate"}

C6_NonRootFrame ==
  [][\A s \in stores :
       LET call == IF th'[s].pc \in C6_PushPcs THEN th'[s] ELSE th[s]
       IN (/\ StepOf(s)
           /\ th[s].pc \in C6_PushPcs \/ th'[s].pc \in C6_PushPcs
           /\ ~C5_IsRoot(call.p.digest, call.d))
          => (nameMap'[s] = nameMap[s] /\ indexFile' = indexFile)]_vars

\* a Push of the expected digest under a layer media type has returned a
\* writer, on a store that has a name registered
C6_Witness ==
  \E s \in stores :
    /\ ret[s].op = "Push" /\ ret[s].err = NoErr
    /\ ret[s].digest = ret[s].d.Digest
    /\ ret[s].d.MediaType = MediaTypeImageLayer
    /\ ret[s].writer = "file"

(***************************************************************************)
(* C7  Flush.  After Flush() has returned without error, Resolve(name) on  *)
(* the same store fails, with no descriptor, for every name registered     *)
(* before the flush, and blobs/, index.json and oci-layout are gone.       *)
(***************************************************************************)
C7_FlushForgets ==
  \A s \in stores :
    (ret[s].op = "Flush" /\ ret[s].err = NoErr) =>
      /\ \A n \in DOMAIN nameMap[s] :
           ResolveNow(s, n).err # NoErr /\ ResolveNow(s, n).desc = EmptyDescriptor
      /\ blobs = <<>> /\ ~blobsDir /\ indexFile = <<>> /\ ~ociLayout

(***************************************************************************)
(* C8  Walk.  Walk calls the visitor exactly once for every registered     *)
(* (name, descriptor) pair when no visitor call fails; when the visitor    *)
(* fails on a pair no further pair is visited and Walk returns that error. *)
(***************************************************************************)
C8_WalkSurfacesError ==
  \A s \in stores :
    ret[s].op = "Walk" =>
      /\ (ret[s].fnErr = NoErr /\ ret[s].err = NoErr) =>
           /\ {ret[s].visited[i] : i \in 1..Len(ret[s].visited)}
                = {<<n, nameMap[s][n]>> : n \in DOMAIN nameMap[s]}
           /\ Len(ret[s].visited) = Cardinality(DOMAIN nameMap[s])
      /\ ret[s].fnErr # NoErr =>
           /\ ret[s].visited[Len(ret[s].visited)][1] = ret[s].fnErr.Path
           /\ ret[s].err = ret[s].fnErr

(***************************************************************************)
(* C9  Idempotent blob write.  A write (writeStream, from writeBytes or    *)
(* writeLayer) to a path where a file is already present leaves the files  *)
(* under blobs/ as they are, that of the first write included, and returns *)
(* nil without going on to os.Create or io.Copy.                           *)
(***************************************************************************)
C9_IdempotentWrite ==
  [][\A s \in stores :
       /\ (InWriteBytes(s, "stat") /\ StepOf(s) /\ BytesPath(s) \in DOMAIN blobs) =>
            /\ blobs' = blobs
            /\ th'[s].pc = (IF th[s].pc = "config" THEN "manifest" ELSE "index")
            /\ th'[s].sub # "create"
       /\ \A i \in 1..NumLayers :
            (/\ th[s].pc = "wait" /\ workers[s][i] = "stat"
             /\ workers'[s][i] # "stat"
             /\ LayerPath(s, i) \in DOMAIN blobs)
            => (blobs' = blobs /\ workers'[s][i] = "done" /\ th'[s].gerr = th[s].gerr)]_vars

\* a second Add, after a first one that succeeded, has passed its config
\* write: the config blob was there already
C9_Witness ==
  \E s \in stores :
    /\ th[s].pc = "manifest" /\ calls = 2 /\ faults = 0
    /\ nameMap[s] # <<>> /\ indexFile # <<>>
    /\ BlobPath(<<"sha256">>, RawConfig(th[s].oci)) \in DOMAIN blobs

(***************************************************************************)
(* C10  Concurrent layer ingestion.  Under every interleaving of the layer *)
(* workers, when Add has returned nil a blob file exists for each layer    *)
(* digest, for the config and for the manifest; without I/O failure Add    *)
(* returns nil, and on a fresh store the files hold the complete bytes.    *)
(***************************************************************************)
C10_AllBlobsPresent ==
  \A s \in stores :
    /\ (ret[s].op = "Add" /\ faults = 0) => ret[s].err = NoErr
    /\ AddSucceeded(s) =>
         LET a == ret[s].oci
             fresh == calls = 1 /\ faults = 0
             has(data) ==
               LET p == BlobPath(<<"sha256">>, data)
               IN p \in DOMAIN blobs /\ (fresh => blobs[p] = data)
         IN /\ \A i \in 1..NumLayers : has(LayerData(a, i))
            /\ has(RawConfig(a))
            /\ has(ManifestData(a))

\* Add of the artifact with NumLayers distinct layers has returned nil on a
\* fresh store
C10_Witness ==
  \E s \in stores :
    /\ AddSucceeded(s) /\ ret[s].oci = "x" /\ calls = 1
    /\ Cardinality({BlobPath(<<"sha256">>, LayerData("x", i)) : i \in 1..NumLayers}
                     \cap DOMAIN blobs) = NumLayers

(***************************************************************************)
(* C11  Add returns the root descriptor.  When Add(artifact, ref) has      *)
(* returned nil, the descriptor it returned has the media type of the      *)
(* manifest, the digest and size of the marshaled manifest bytes and the   *)
(* reference-name annotation ref.                                          *)
(***************************************************************************)
C11_AddReturnsRoot ==
  \A s \in stores :
    AddSucceeded(s) =>
      LET a == ret[s].oci
          d == ret[s].desc
      IN /\ d.MediaType = Manifest(a).MediaType
         /\ d.Digest = FromBytes(ManifestData(a))
         /\ d.Size = Len(ManifestData(a))
         /\ MapGet(d.Annotations, AnnotationRefName) = ret[s].reference

(***************************************************************************)
(* C12  Concurrent pushes of the same blob.  When the pushes last made on  *)
(* two sessions of one root were for the same digest and one of them got a *)
(* writer (no writer is closed in this model), the other one ended with    *)
(* ErrUnavailable and without a writer onto the blob file.                 *)
(***************************************************************************)
\* errdefs.ErrUnavailable, which the doc comment of Pusher promises
ErrUnavailable == [Op |-> "unavailable"]

C12_SecondPushUnavailable ==
  \A s, t \in stores :
    (/\ s # t
     /\ ret[s].op = "Push" /\ ret[t].op = "Push"
     /\ ret[s].d.Digest = ret[t].d.Digest
     /\ ret[s].writer # "nil")
    => (ret[t].err = ErrUnavailable /\ ret[t].writer # "file")

(***************************************************************************)
(* C13  Persisted-index invariant.  A step in which SaveIndex succeeds     *)
(* (called by the client, by Add or by Push) leaves an index.json whose    *)
(* manifests list holds one descriptor per key of the name map and nothing *)
(* else, each carrying its key as reference-name annotation, no name twice.*)
(***************************************************************************)
\* store s completes a SaveIndex without error in this step
C13_Saved(s) ==
  \/ IsIdle(s) /\ calls' # calls /\ ret'[s].op = "SaveIndex" /\ ret'[s].err = NoErr
  \/ th[s].pc = "save" /\ ret'[s].op = "Add" /\ ret'[s].err = NoErr
  \/ th[s].pc = "pushSave" /\ th'[s].pc = "pushStat"

C13_PersistedIndex ==
  [][\A s \in stores :
       C13_Saved(s) =>
         /\ indexFile' # <<>> /\ indexFile'[1].valid
         /\ LET ms == indexFile'[1].manifests
                nameOf(i) == ms[i].annotations[AnnotationRefName]
            IN /\ Len(ms) = Cardinality(DOMAIN nameMap'[s])
               /\ \A i \in 1..Len(ms) :
                    /\ "annotations" \in DOMAIN ms[i]
                    /\ AnnotationRefName \in DOMAIN ms[i].annotations
                    /\ nameOf(i) \in DOMAIN nameMap'[s]
                    /\ ms[i].digest = nameMap'[s][nameOf(i)].Digest
                    /\ \A j \in 1..Len(ms) : nameOf(j) = nameOf(i) => j = i
               /\ \A n \in DOMAIN nameMap'[s] : \E i \in 1..Len(ms) : nameOf(i) = n]_vars

\* a second Add has just saved an index with two names
C13_Witness ==
  \E s \in stores :
    /\ AddSucceeded(s) /\ calls = 2
    /\ Cardinality(DOMAIN nameMap[s]) = 2
    /\ Cardinality(Persisted) = 2

(***************************************************************************)
(* C14  Fail-together layer workers.  Add launches one worker per layer    *)
(* before it waits for any; a worker that fails leaves its siblings as     *)
(* they are; g.Wait returns only when every worker has ended; and the      *)
(* error Add returns is that of the worker that failed first.              *)
(***************************************************************************)
C14_FailTogether ==
  [][\A s \in stores :
       /\ (th[s].pc = "idle" /\ th'[s].pc = "wait") =>
            \A i \in 1..NumLayers : workers'[s][i] = "stat"
       /\ (th[s].pc = "wait" /\ th'[s].pc = "wait") =>
            \A i \in th'[s].failed \ th[s].failed :
              /\ \A j \in 1..NumLayers \ {i} : workers'[s][j] = workers[s][j]
              /\ IF th[s].gerr = NoErr
                 THEN th'[s].gerr # NoErr /\ th'[s].gerr.Path = LayerPath(s, i)
                 ELSE th'[s].gerr = th[s].gerr
       /\ (th[s].pc = "wait" /\ th'[s].pc # "wait") =>
            /\ \A i \in 1..NumLayers : workers[s][i] = "done"
            /\ IF th[s].gerr = NoErr
               THEN th'[s].pc = "config"
               ELSE /\ th'[s].pc = "idle"
                    /\ ret'[s].op = "Add" /\ ret'[s].err = th[s].gerr]_vars

\* every worker of an Add has ended, two of them with an error, and the
\* error kept is not that of the worker that failed last
C14_Witness ==
  \E s \in stores :
    /\ th[s].pc = "wait"
    /\ \A i \in 1..NumLayers : workers[s][i] = "done"
    /\ Cardinality(th[s].failed) >= 2
    /\ \E i, j \in th[s].failed :
         /\ LayerPath(s, i) # LayerPath(s, j)
         /\ th[s].gerr = PathError("open", LayerPath(s, i))

(***************************************************************************)
(* C15  Index mutation is the last step.  When Add or Push returns an      *)
(* error, the name map of the store and index.json are what they were when *)
(* the call was made.                                                      *)
(***************************************************************************)
C15_ErrorLeavesIndex ==
  [][\A s \in stores :
       (/\ th[s].pc # "idle" /\ th'[s].pc = "idle"
        /\ ret'[s].op \in {"Add", "Push"} /\ ret'[s].err # NoErr)
       => (nameMap'[s] = th[s].nm0 /\ indexFile' = th[s].file0)]_vars

(***************************************************************************)
(* C16  A name is resolvable only when its root is stored.  In every state *)
(* reached by Add and Push alone (no Flush has removed the layout), every  *)
(* descriptor a name maps to, in a name map or in index.json, has its blob *)
(* file on disk.                                                           *)
(***************************************************************************)
C16_Stored(d) == BlobPath(Algorithm(d.Digest), Hex(d.Digest)) \in DOMAIN blobs

C16_NamedRootStored ==
  ociLayout =>
    /\ \A s \in stores : \A n \in DOMAIN nameMap[s] : C16_Stored(nameMap[s][n])
    /\ \A d \in Persisted : C16_Stored(d)

(***************************************************************************)
(* C17  Lost index update.  Two instances on one root that each load and   *)
(* then save the index (in Add, or in a Push that recognised its root) for *)
(* different names can interleave as load, load, save, save: when the      *)
(* second save is made by an instance that loaded before the first save,   *)
(* index.json afterwards holds the names of the second saver only and the  *)
(* name the first one registered is gone from disk.                        *)
(***************************************************************************)
\* the reference names of index.json
C17_PersistedNames == {MapGet(d.Annotations, AnnotationRefName) : d \in Persisted}
\* instance s has finished, without error, a load-then-save that registered n
C17_Registered(s, n) ==
  /\ th[s].pc = "idle" /\ ret[s].err = NoErr
  /\ \/ ret[s].op = "Add" /\ ret[s].reference = n
     \/ ret[s].op = "Push" /\ ret[s].ref = n /\ RootRecognised(pusher[s][1], ret[s].d)
\* instance t, registering n, is between its load and its save
C17_Loaded(t, n) ==
  \/ th[t].pc = "save" /\ th[t].reference = n
  \/ th[t].pc = "pushSave" /\ th[t].p.ref = n

C17_LostUpdate ==
  [][\A s, t \in stores : \A ns, nt \in Names \ {<<>>} :
       (/\ s # t /\ ns # nt
        /\ C17_Registered(s, ns) /\ ns \in C17_PersistedNames
        /\ C17_Loaded(t, nt) /\ ns \notin DOMAIN nameMap[t]
        /\ th'[t] # th[t])
       => /\ C17_PersistedNames' = DOMAIN nameMap'[t]
          /\ nt \in C17_PersistedNames' /\ ns \notin C17_PersistedNames'
          /\ (th[t].pc = "save" => ret'[t].err = NoErr)]_vars

\* both instances have returned without error, for different names, and
\* index.json holds only one of the two names
C17_Witness ==
  \E s, t \in stores : \E ns, nt \in Names \ {<<>>} :
    /\ s # t /\ ns # nt /\ ociLayout
    /\ C17_Registered(s, ns) /\ C17_Registered(t, nt)
    /\ C17_PersistedNames = {nt}

(***************************************************************************)
(* C18  Blob immutability under concurrent writers.  Once a file exists at *)
(* a blob path no step truncates or rewrites it (what it holds is kept as  *)
(* a prefix of what it holds afterwards), and no writer opens with         *)
(* os.Create a path at which a file already exists.                        *)
(***************************************************************************)
C18_IsPrefix(u, v) == Len(u) <= Len(v) /\ SubSeq(v, 1, Len(u)) = u
\* the thread or a worker of store s passes os.Create on an existing path
C18_Reopens(s) ==
  \/ \E i \in 1..NumLayers :
       /\ th[s].pc = "wait" /\ workers[s][i] = "create" /\ workers'[s][i] = "copy"
       /\ LayerPath(s, i) \in DOMAIN blobs
  \/ /\ InWriteBytes(s, "create") /\ th'[s].pc = th[s].pc /\ th'[s].sub = "copy"
     /\ BytesPath(s) \in DOMAIN blobs
  \/ /\ th[s].pc = "pushCreate" /\ ret'[s].op = "Push" /\ ret'[s].writer = "file"
     /\ PushPath(s) \in DOMAIN blobs

C18_BlobImmutable ==
  [][/\ \A p \in DOMAIN blobs \cap DOMAIN blobs' : C18_IsPrefix(blobs[p], blobs'[p])
     /\ \A s \in stores : ~C18_Reopens(s)]_vars

(***************************************************************************)
(* C20  Index persistence round-trip.  When an instance has saved the      *)
(* index (at the end of a successful Add) and another instance of the same *)
(* root, whose name map is empty as NewOCI left it, then calls LoadIndex,  *)
(* the name map it gets has exactly the keys of the saver's name map,      *)
(* mapped to descriptors with the same digests.                            *)
(***************************************************************************)
\* instance t, and no other, takes a LoadIndex step
C20_Loads(t) ==
  /\ IsIdle(t) /\ ret'[t].op = "LoadIndex"
  /\ th' = th /\ calls' = calls
  /\ \A u \in stores \ {t} : ret'[u] = ret[u]

C20_IndexRoundTrip ==
  [][\A s, t \in stores :
       (/\ s # t /\ AddSucceeded(s) /\ ociLayout
        /\ nameMap[t] = <<>> /\ C20_Loads(t))
       => /\ ret'[t].err = NoErr
          /\ DOMAIN nameMap'[t] = DOMAIN nameMap[s]
          /\ \A n \in DOMAIN nameMap[s] : nameMap'[t][n].Digest = nameMap[s][n].Digest]_vars

(***************************************************************************)
(* C19  Retried ingestion is safe for blobs.  When Layout.AddOCI is called *)
(* with some of the blobs of the artifact (manifest, config, layers)       *)
(* already on disk and no I/O failure occurs, the call returns nil, every  *)
(* blob file that was present is unchanged and every blob of the artifact  *)
(* is on disk afterwards.                                                  *)
(***************************************************************************)
\* the blob paths of artifact a
C19_Paths(a) ==
  {BlobPath(<<"sha256">>, data) :
     data \in {ManifestData(a), RawConfig(a)} \cup {LayerData(a, i) : i \in 1..NumLayers}}

C19_RetrySafe ==
  [][\A s \in stores :
       (/\ th[s].pc \in {"lmanifest", "lconfig", "lwait", "lindex"}
        /\ th'[s].pc \in {"idle", "panic"}
        /\ C19_Paths(th[s].oci) \cap DOMAIN th[s].blobs0 # {}
        /\ faults' = 0)
       => /\ th'[s].pc = "idle" /\ ret'[s].op = "AddOCI" /\ ret'[s].err = NoErr
          /\ \A p \in DOMAIN th[s].blobs0 : p \in DOMAIN blobs' /\ blobs'[p] = th[s].blobs0[p]
          /\ C19_Paths(th[s].oci) \subseteq DOMAIN blobs']_vars

====
